---- MODULE Spec2Model ----
(***************************************************************************)
(* Model of the game recommendation engine: the vector store               *)
(* (src/src/vector_store.py, class GameVectorStore, backed by a Qdrant     *)
(* collection) and the LangGraph recommendation flow                       *)
(* (src/src/recommendation_engine.py, class GameRecommendationEngine).     *)
(*                                                                         *)
(* Text is a sequence of tokens.  Similarity scores are in hundredths      *)
(* (0.6 is 60).  An embedding vector is [dim, dir]: its dimension and an   *)
(* abstract direction; the similarity of two vectors depends only on the   *)
(* two directions.                                                         *)
(***************************************************************************)
EXTENDS Integers, Sequences, FiniteSets, TLC

(* ------------------------------ bounds -------------------------------- *)
\* longest batch handed to add_games_to_collection
MaxBatch == 2
\* largest limit handed to a direct search_games call
MaxLimit == 2

(* ------------------------- program constants -------------------------- *)
\* dimension reported by the all-MiniLM-L6-v2 sentence-embedding model
ModelDim == 384
\* payload description slice, game["app_description"][:1000]
DescLimit == 1000
\* limit=5 and score_threshold=0.6 of the search_games stage
PipelineLimit == 5
PipelineThreshold == 60

(* Every field value is a sequence of tokens.  None is Python's None (SQL   *)
(* NULL), Missing a key that the dict / Row does not have.                 *)
None == <<"<None>">>
Missing == <<"<Missing>">>

Min(a, b) == IF a <= b THEN a ELSE b
Range(s) == {s[i] : i \in 1..Len(s)}

(* ------------------------------ inputs -------------------------------- *)
DefaultCollection == "game_recommendations"
OtherCollection == "other_games"
CollectionNames == {DefaultCollection, OtherCollection}

AppIds == {<<"g1">>, <<"g2">>}

\* the shapes of catalog record handed to add_games_to_collection
GameOf(id, name, desc, link) ==
    [app_id |-> id, app_name |-> name, app_category |-> <<"GAME_ADVENTURE">>,
     app_description |-> desc, rating |-> <<"4.5">>,
     screenshot_captions |-> <<"a forest">>,
     app_icon |-> <<"icon">>, app_page_link |-> link]

Games ==
    {GameOf(<<"g1">>, <<"forest">>, <<"explore", "forest">>, <<"link">>),
     GameOf(<<"g1">>, <<"puzzle">>, <<"match", "blocks">>, <<"link">>),
     GameOf(<<"g2">>, <<"forest">>, <<"green", "forest">>, <<"link">>),
     GameOf(<<"g2">>, <<"puzzle">>, None, <<"link">>)}

\* a valid GameRecord has a description string
ValidGame(g) == g.app_description # None /\ g.app_description # Missing

Batches == UNION {[1..n -> Games] : n \in 0..MaxBatch}

QueryTexts == {<<"forest">>, <<"puzzle">>, <<"ghost">>}
Thresholds == {0, 50, PipelineThreshold}

(* --------------------------- embedding model -------------------------- *)
\* SentenceTransformer.encode: a fixed function of the text
EncodeDir(text) ==
    IF "puzzle" \in Range(text) THEN 1
    ELSE IF "forest" \in Range(text) THEN 0
    ELSE 3

encode(text, dim) == [dim |-> dim, dir |-> EncodeDir(text)]

\* the backend's cosine score, in hundredths
Abs(x) == IF x < 0 THEN -x ELSE x
Score(qv, pv) == 100 - 45 * Abs(qv.dir - pv.dir)

(* ----------------------------- variables ------------------------------ *)
VARIABLES
    embedding_dim,      \* GameVectorStore.embedding_dim (class attribute; 0: None)
    collection_name,    \* GameVectorStore.collection_name (class attribute)
    colls,              \* the backend: collection name -> Absent or a collection
    pre,                \* colls as it was when the last store call began
    last_call,          \* the last store call: its arguments and its outcome
    node,               \* recommend_games: the graph node to run next
    state,              \* recommend_games: the graph State
    visited,            \* recommend_games: the nodes run so far, in order
    calls,              \* recommend_games: the external calls made, in order
    arg_query,          \* recommend_games: the argument of the invocation
    result,             \* recommend_games: the returned dict, or None
    error,              \* recommend_games: the exception that left it, if any
    got,                \* recommend_games: what each external call answered
    other,              \* a second recommend_games invocation, while suspended
    embedding_model,    \* GameVectorStore.embedding_model (class attribute; 0: None)
    loads,              \* how many SentenceTransformer instances were built
    threads,            \* per thread: where it is in __init__ / create_collection
    cleanup,            \* a raw LLM answer and its cleaned forms
    inst,               \* the GameVectorStore objects constructed, and the receiver
    db,                 \* the apps table of data/games.db: app_id -> row
    session,            \* st.session_state of app.py
    fetch,              \* GooglePlayStoreFetcher.fetch_games: its locals
    embed               \* a record and the text generate_game_embedding built

store_vars == <<embedding_dim, collection_name, colls, pre, last_call>>
flow_vars == <<node, state, visited, calls, arg_query, result, error, got,
               other>>
aux_vars == <<embedding_model, loads, threads, cleanup, inst, db, session,
              fetch, embed>>
vars == <<embedding_dim, collection_name, colls, pre, last_call,
          node, state, visited, calls, arg_query, result, error, got, other,
          embedding_model, loads, threads, cleanup, inst, db, session,
          fetch, embed>>

\* the variables of the parts of the program that are not running
NoInst == [names |-> <<>>, receiver |-> 0]
NoDb == <<>>
NoSession == [page |-> "none"]
NoFetch == [pc |-> "none"]
NoEmbed == [stage |-> "none"]
Unused ==
    /\ inst = NoInst
    /\ db = NoDb
    /\ session = NoSession
    /\ fetch = NoFetch
    /\ embed = NoEmbed

(* ------------------------------ backend ------------------------------- *)
Absent == [exists |-> FALSE, size |-> 0, distance |-> "", points |-> {}]
Exists(cs, name) == cs[name].exists

\* client.get_collection(name).points_count
PointsCount(coll) == Cardinality(coll.points)

\* count_games(): points_count or 0
CountOf(cs, name) == PointsCount(cs[name])

\* client.create_collection(collection_name, VectorParams(size, COSINE))
NewCollection(size) == [exists |-> TRUE, size |-> size, distance |-> "Cosine", points |-> {}]

\* client.upsert: each point replaces the stored point with its id, in order
RECURSIVE UpsertPoints(_, _)
RECURSIVE UpsertPointsKeepOld(_, _)
UpsertPointsKeepOld(points, new) ==
    IF new = <<>> THEN points
    ELSE UpsertPointsKeepOld(points \cup {Head(new)}, Tail(new))

RECURSIVE UpsertPointsFirstWins(_, _)
UpsertPointsFirstWins(points, new) ==
    IF new = <<>> THEN points
    ELSE UpsertPointsFirstWins(
            IF \E p \in points : p.id = Head(new).id
              THEN points ELSE points \cup {Head(new)},
            Tail(new))

UpsertPoints(points, new) ==
    IF new = <<>> THEN points
    ELSE UpsertPoints({p \in points : p.id # Head(new).id} \cup {Head(new)},
                      Tail(new))

\* the backend accepts an upsert into an existing collection of that dimension
UpsertAccepted(cs, name, new) ==
    /\ Exists(cs, name)
    /\ \A i \in 1..Len(new) : new[i].vector.dim = cs[name].size

(* -------------------------- GameVectorStore --------------------------- *)
\* generate_game_embedding: the text that is embedded
TextFields(game) ==
    (IF game.app_name \notin {None, <<>>}
        THEN <<"Title:">> \o game.app_name ELSE <<>>)
    \o (IF game.app_category \notin {None, <<>>}
        THEN <<"Category:">> \o game.app_category ELSE <<>>)
    \o (IF game.app_description \notin {None, <<>>}
        THEN <<"Description:">> \o game.app_description ELSE <<>>)
    \o (IF game.screenshot_captions \notin {None, <<>>}
        THEN [i \in 1..(2 * Len(game.screenshot_captions)) |->
                IF i % 2 = 1 THEN "Screenshot shows:"
                ELSE game.screenshot_captions[i \div 2]]
        ELSE <<>>)

\* generate_game_embedding reads these keys; a missing key raises KeyError
EmbeddingKeys(game) ==
    /\ game.app_name # Missing
    /\ game.app_category # Missing
    /\ game.app_description # Missing
    /\ game.screenshot_captions # Missing

generate_game_embedding(game, dim) == encode(TextFields(game), dim)

\* the payload dict; None[:1000] raises TypeError, a missing key KeyError
PayloadRaises(game) ==
    \/ \E k \in DOMAIN game : game[k] = Missing
    \/ game.app_description = None

PayloadUntruncated(game) ==
    [app_id |-> game.app_id, app_name |-> game.app_name,
     app_category |-> game.app_category,
     app_description |-> game.app_description,
     rating |-> game.rating, screenshot_captions |-> game.screenshot_captions,
     app_icon |-> game.app_icon, app_page_link |-> game.app_page_link]

Payload(game) ==
    [app_id |-> game.app_id, app_name |-> game.app_name,
     app_category |-> game.app_category,
     app_description |->
        SubSeq(game.app_description, 1, Min(Len(game.app_description), DescLimit)),
     rating |-> game.rating, screenshot_captions |-> game.screenshot_captions,
     app_icon |-> game.app_icon, app_page_link |-> game.app_page_link]

PointStruct(game, dim) ==
    [id |-> game.app_id, vector |-> generate_game_embedding(game, dim),
     payload |-> Payload(game)]

\* the body of the try block succeeds for record i
Processed(games, encFail, i) ==
    /\ EmbeddingKeys(games[i])
    /\ i \notin encFail
    /\ ~PayloadRaises(games[i])

\* the except handler formats game['app_name']; a missing key raises there
HandlerRaises(games, encFail) ==
    \E i \in 1..Len(games) :
        ~Processed(games, encFail, i) /\ games[i].app_name = Missing

\* points: the PointStructs of the records that were processed, in order
RECURSIVE BuildPoints(_, _, _, _)
BuildPoints(games, encFail, dim, i) ==
    IF i > Len(games) THEN <<>>
    ELSE (IF Processed(games, encFail, i)
            THEN <<PointStruct(games[i], dim)>> ELSE <<>>)
         \o BuildPoints(games, encFail, dim, i + 1)

NoCall == [op |-> "none"]

create_collection_recreates(backendOk, createOk) ==
    /\ pre' = colls
    /\ IF ~backendOk \/ embedding_dim = 0 \/ ~createOk
         THEN /\ last_call' = [op |-> "create_collection", raised |-> TRUE,
                               name |-> collection_name]
              /\ UNCHANGED colls
         ELSE /\ colls' = [colls EXCEPT ![collection_name] =
                              NewCollection(embedding_dim)]
              /\ last_call' = [op |-> "create_collection", raised |-> FALSE,
                               name |-> collection_name]
    /\ UNCHANGED <<embedding_dim, collection_name>>

is_backend_available_raises(backendOk) ==
    /\ pre' = colls
    /\ last_call' = [op |-> "is_backend_available", name |-> collection_name,
                     backend_ok |-> backendOk, raised |-> ~backendOk,
                     returned |-> TRUE]
    /\ UNCHANGED <<embedding_dim, collection_name, colls>>

\* is_backend_available(): get_collections inside try/except Exception
is_backend_available(backendOk) ==
    /\ pre' = colls
    /\ last_call' = [op |-> "is_backend_available", name |-> collection_name,
                     backend_ok |-> backendOk, raised |-> FALSE,
                     returned |-> backendOk]
    /\ UNCHANGED <<embedding_dim, collection_name, colls>>

IsBackendAvailable ==
    /\ \E backendOk \in BOOLEAN : is_backend_available(backendOk)
    /\ UNCHANGED <<flow_vars, aux_vars>>

\* create_collection()
create_collection(backendOk, createOk) ==
    /\ pre' = colls
    /\ IF ~backendOk
         THEN /\ last_call' = [op |-> "create_collection", raised |-> TRUE,
                               name |-> collection_name]
              /\ UNCHANGED colls
       ELSE IF Exists(colls, collection_name)
         THEN /\ last_call' = [op |-> "create_collection", raised |-> FALSE,
                               name |-> collection_name]
              /\ UNCHANGED colls
       ELSE IF embedding_dim = 0 \/ ~createOk
         THEN /\ last_call' = [op |-> "create_collection", raised |-> TRUE,
                               name |-> collection_name]
              /\ UNCHANGED colls
       ELSE /\ colls' = [colls EXCEPT ![collection_name] =
                            NewCollection(embedding_dim)]
            /\ last_call' = [op |-> "create_collection", raised |-> FALSE,
                             name |-> collection_name]
    /\ UNCHANGED <<embedding_dim, collection_name>>

CreateCollection ==
    /\ \E backendOk \in BOOLEAN, createOk \in BOOLEAN :
          create_collection(backendOk, createOk)
    /\ UNCHANGED <<flow_vars, aux_vars>>

\* what the last add_games_to_collection call was given and what it did with
\* each record (facts about the batch, not about the collection)
BatchFacts(games, encFail) ==
    [n_records |-> Len(games),
     all_valid |-> \A i \in 1..Len(games) : ValidGame(games[i]),
     batch_ids |-> {games[i].app_id : i \in 1..Len(games)},
     n_embedded |-> Cardinality({i \in 1..Len(games) :
                        EmbeddingKeys(games[i]) /\ i \notin encFail}),
     n_processed |-> Cardinality({i \in 1..Len(games) :
                        Processed(games, encFail, i)}),
     last_processed |-> [id \in AppIds |->
        LET is == {i \in 1..Len(games) :
                     games[i].app_id = id /\ Processed(games, encFail, i)}
        IN IF is = {} THEN <<>>
           ELSE <<games[CHOOSE i \in is : \A j \in is : j <= i]>>]]

\* add_games_to_collection(games); encFail: the records whose encode call
\* fails, backendOk: whether the backend serves the upsert request
add_games_to_collection(games, encFail, backendOk) ==
    LET points == BuildPoints(games, encFail, embedding_dim, 1)
        aborted == HandlerRaises(games, encFail)
        sent == ~aborted /\ points # <<>>
        accepted == backendOk /\ UpsertAccepted(colls, collection_name, points)
    IN /\ pre' = colls
       /\ colls' = IF sent /\ accepted
                     THEN [colls EXCEPT ![collection_name].points =
                              UpsertPoints(@, points)]
                     ELSE colls
       /\ last_call' = [op |-> "add_games", name |-> collection_name,
                        raised |-> aborted \/ (sent /\ ~accepted),
                        returned |-> None,
                        facts |-> BatchFacts(games, encFail)]
       /\ UNCHANGED <<embedding_dim, collection_name>>

\* the records for which encode is called and decides the outcome, and the
\* replies of the backend to the upsert request (made only when points exist)
EncodeCalls(games) ==
    {i \in 1..Len(games) : EmbeddingKeys(games[i]) /\ ~PayloadRaises(games[i])}

UpsertReplies(games, encFail) ==
    IF \E i \in 1..Len(games) : Processed(games, encFail, i)
      THEN BOOLEAN ELSE {TRUE}

AddGames ==
    /\ \E games \in Batches :
         \E encFail \in SUBSET EncodeCalls(games) :
            \E backendOk \in UpsertReplies(games, encFail) :
               add_games_to_collection(games, encFail, backendOk)
    /\ UNCHANGED <<flow_vars, aux_vars>>

\* client.search: the points scoring at least the threshold, best first, at
\* most limit of them; the order of equal scores is the backend's
Candidates(points, qv, threshold) ==
    {p \in points : Score(qv, p.vector) >= threshold}

SearchResponsesNoLimit(points, qv, limit, threshold) ==
    LET cands == Candidates(points, qv, threshold)
        k == Cardinality(cands)
    IN {r \in [1..k -> cands] :
          /\ \A i, j \in 1..k : i < j => r[i] # r[j]
          /\ \A i, j \in 1..k :
                i < j => Score(qv, r[i].vector) >= Score(qv, r[j].vector)}

SearchResponses(points, qv, limit, threshold) ==
    LET cands == Candidates(points, qv, threshold)
        k == Min(limit, Cardinality(cands))
    IN {r \in [1..k -> cands] :
          /\ \A i, j \in 1..k : i < j => r[i] # r[j]
          /\ \A i, j \in 1..k :
                i < j => Score(qv, r[i].vector) >= Score(qv, r[j].vector)
          /\ \A c \in cands \ Range(r) :
                \A i \in 1..k : Score(qv, r[i].vector) >= Score(qv, c.vector)}

NoPayload == [empty |-> TRUE]

\* search_games, lines 205-214: the payload of each hit plus its score
RECURSIVE FormatHits(_, _)
FormatHits(resp, qv) ==
    IF resp = <<>> THEN <<>>
    ELSE (IF Head(resp).payload = NoPayload THEN <<>>
          ELSE <<Head(resp).payload
                  @@ [similarity_score |-> Score(qv, Head(resp).vector)]>>)
         \o FormatHits(Tail(resp), qv)

\* search_games(query, limit, score_threshold): every outcome the call can
\* have, with the external calls it made
SearchOutcomes(query, limit, threshold) ==
    {[raised |-> TRUE, query |-> query, results |-> <<>>,
      calls |-> <<"encode">>]}
    \cup {[raised |-> TRUE, query |-> query, results |-> <<>>,
           calls |-> <<"encode", "search">>]}
    \cup (IF Exists(colls, collection_name)
            THEN {[raised |-> FALSE, query |-> query,
                   results |-> FormatHits(r, encode(query, embedding_dim)),
                   calls |-> <<"encode", "search">>] :
                  r \in SearchResponses(colls[collection_name].points,
                                        encode(query, embedding_dim),
                                        limit, threshold)}
            ELSE {})

Search ==
    /\ \E query \in QueryTexts, limit \in 1..MaxLimit, threshold \in Thresholds :
         \E out \in SearchOutcomes(query, limit, threshold) :
            last_call' = [op |-> "search_games", name |-> collection_name,
                          raised |-> out.raised, limit |-> limit,
                          threshold |-> threshold, returned |-> out.results]
    /\ pre' = colls
    /\ UNCHANGED <<embedding_dim, collection_name, colls>>
    /\ UNCHANGED <<flow_vars, aux_vars>>

\* client.get_collection(name): the request fails (backend down, or no such
\* collection), or it answers with points_count, which may be None
NoCount == 0 - 1
CountReplies ==
    {[failed |-> TRUE, points_count |-> NoCount]}
    \cup (IF Exists(colls, collection_name)
            THEN {[failed |-> FALSE,
                   points_count |-> CountOf(colls, collection_name)],
                  [failed |-> FALSE, points_count |-> NoCount]}
            ELSE {})

count_games_no_default(reply) ==
    [raised |-> reply.failed, reply |-> reply,
     value |-> IF reply.failed THEN 0 ELSE reply.points_count]

\* count_games(): points_count or 0, and no try/except around the request
count_games(reply) ==
    [raised |-> reply.failed, reply |-> reply,
     value |-> IF reply.failed \/ reply.points_count = NoCount
                 THEN 0 ELSE reply.points_count]

CountOutcomes == {count_games(reply) : reply \in CountReplies}

CountGames ==
    /\ \E out \in CountOutcomes :
          last_call' = [op |-> "count_games", name |-> collection_name,
                        raised |-> out.raised, reply |-> out.reply,
                        returned |-> out.value]
    /\ pre' = colls
    /\ UNCHANGED <<embedding_dim, collection_name, colls>>
    /\ UNCHANGED <<flow_vars, aux_vars>>

(* --------------------- GameRecommendationEngine ----------------------- *)
DQ == "\""
SQ == "'"
STAR == "*"
SP == " "
NL == "\n"
Whitespace == {SP, NL}

UserQueries == {<<"ghost", "games">>, <<"calm", "forest">>}

\* what the query-enhancement LLM call may answer (enhanced_query.content)
EnhancerContents ==
    {<<"forest">>,
     <<DQ, "Search", SP, "query", ":", SP, "puzzle", DQ>>,
     <<"ghost", ",", "horror">>,
     <<DQ, DQ>>}

\* what the result-formatting LLM call may answer
FormatterContents == {<<"Try", "Forest", "Quest">>, <<"No", "good", "match">>}

NoResultsText == <<"No results found">>

\* the regex of enhance_query, matched at position i of s (re.MULTILINE, no
\* re.IGNORECASE): 0 when it does not match there, else the position after
\* the match
At(s, i) == IF i >= 1 /\ i <= Len(s) THEN s[i] ELSE ""

RECURSIVE SkipWhitespace(_, _)
SkipWhitespace(s, i) ==
    IF At(s, i) \in Whitespace THEN SkipWhitespace(s, i + 1) ELSE i

SkipStars(s, i) ==
    IF At(s, i) = STAR
      THEN (IF At(s, i + 1) = STAR THEN i + 2 ELSE i + 1)
      ELSE i

SkipQuote(s, i) == IF At(s, i) \in {SQ, DQ} THEN i + 1 ELSE i

LabelEnd(s, i) ==
    LET a == SkipStars(s, SkipWhitespace(s, SkipQuote(s, i)))
    IN IF At(s, a) # "Search" \/ At(s, a + 1) \notin Whitespace THEN 0
       ELSE LET b == SkipWhitespace(s, a + 1)
            IN IF At(s, b) # "query" THEN 0
               ELSE LET c == SkipWhitespace(s, SkipQuote(s, SkipStars(s, b + 1)))
                    IN IF At(s, c) # ":" THEN 0
                       ELSE SkipWhitespace(s, c + 1)

\* re.sub(regex, "", content, 0, re.MULTILINE) from position i on
RECURSIVE SubLabels(_, _)
SubLabels(s, i) ==
    IF i > Len(s) THEN <<>>
    ELSE IF (i = 1 \/ s[i - 1] = NL) /\ LabelEnd(s, i) # 0
      THEN SubLabels(s, LabelEnd(s, i))
    ELSE <<s[i]>> \o SubLabels(s, i + 1)

StripLeadingQuote(s) ==
    IF s # <<>> /\ Head(s) = DQ THEN Tail(s) ELSE s

StripTrailingQuote(s) ==
    IF s # <<>> /\ s[Len(s)] = DQ THEN SubSeq(s, 1, Len(s) - 1) ELSE s

\* enhance_query, lines 133-142: content -> cleaned_msg
CleanMsg(content) ==
    StripTrailingQuote(StripLeadingQuote(SubLabels(content, 1)))

(* ------------------- captions through data/games.db ------------------- *)
\* json.dumps of a list of captions: the characters of the text, a caption's
\* own characters taken as one token
RECURSIVE JsonItems(_)
JsonItems(l) ==
    IF l = <<>> THEN <<>>
    ELSE <<DQ, Head(l), DQ>>
         \o (IF Tail(l) = <<>> THEN <<>> ELSE <<",", SP>> \o JsonItems(Tail(l)))

JsonDumps(l) == <<"[">> \o JsonItems(l) \o <<"]">>

\* add_data_to_game: a list value is stored as its JSON text; load_games
\* reads the TEXT column back as a str (NULL as None)
StoredValue(v) == IF v = None THEN None ELSE JsonDumps(v)

\* the list of captions a field value stands for
IsJsonText(v) == v # <<>> /\ Head(v) = "["
Punctuation == {"[", "]", DQ, ",", SP}
Keep(t) == t \notin Punctuation
CaptionList(v) ==
    IF v = None THEN <<>>
    ELSE IF IsJsonText(v) THEN SelectSeq(v, Keep)
    ELSE v

(* --------------------- records of the catalog sources ----------------- *)
MaxCatalog == 1
LongDescription == [i \in 1..(DescLimit + 1) |-> "d"]

\* the generated sample game of app.py: a dict without an app_page_link key
SampleGame ==
    [GameOf(<<"g1">>, <<"forest">>, <<"adventure", "game">>, Missing)
       EXCEPT !.screenshot_captions = <<"a forest", "a puzzle">>]

\* rows of data/games.db (every column is a key; NULL is None)
RowLong ==
    [GameOf(<<"g1">>, <<"forest">>, LongDescription, <<"link">>)
       EXCEPT !.screenshot_captions = StoredValue(<<"a forest">>)]
RowNoOptionals ==
    [GameOf(<<"g2">>, <<"forest">>, <<"green", "forest">>, None)
       EXCEPT !.rating = None, !.app_icon = None,
              !.screenshot_captions = None]
RowNoDescription ==
    [GameOf(<<"g2">>, <<"puzzle">>, None, <<"link">>)
       EXCEPT !.screenshot_captions = None]

CatalogGames == {SampleGame, RowLong, RowNoOptionals, RowNoDescription}
CatalogBatches == UNION {[1..n -> CatalogGames] : n \in 0..MaxCatalog}

\* add_games_to_collection on a batch of the catalog sources
AddCatalogGames ==
    /\ \E games \in CatalogBatches :
         \E encFail \in SUBSET EncodeCalls(games) :
            \E backendOk \in UpsertReplies(games, encFail) :
               add_games_to_collection(games, encFail, backendOk)
    /\ UNCHANGED <<flow_vars, aux_vars>>

(* ---------------- several GameVectorStore instances ------------------ *)
MaxInstances == 2

\* GameVectorStore(collection_name=name) once the model is loaded, lines
\* 47-48: the client and the name are assigned to the class, not to self
Construct ==
    /\ Len(inst.names) < MaxInstances
    /\ \E name \in CollectionNames :
          /\ collection_name' = name
          /\ inst' = [inst EXCEPT !.names = Append(@, name)]
    /\ UNCHANGED <<embedding_dim, colls, pre, last_call>>
    /\ UNCHANGED <<flow_vars, embedding_model, loads, threads, cleanup, db,
                   session, fetch, embed>>

\* a method call on the r-th instance constructed
OnInstance(r) ==
    /\ r \in 1..Len(inst.names)
    /\ inst' = [inst EXCEPT !.receiver = r]
    /\ UNCHANGED <<flow_vars, embedding_model, loads, threads, cleanup, db,
                   session, fetch, embed>>

InstCreateCollection ==
    \E r \in 1..Len(inst.names) : \E backendOk \in BOOLEAN, createOk \in BOOLEAN :
        OnInstance(r) /\ create_collection(backendOk, createOk)

InstAddGames ==
    \E r \in 1..Len(inst.names) : \E games \in CatalogBatches :
       \E encFail \in SUBSET EncodeCalls(games) :
          \E backendOk \in UpsertReplies(games, encFail) :
             OnInstance(r) /\ add_games_to_collection(games, encFail, backendOk)

InstSearch ==
    \E r \in 1..Len(inst.names) : \E query \in QueryTexts :
       \E out \in SearchOutcomes(query, PipelineLimit, PipelineThreshold) :
          /\ OnInstance(r)
          /\ last_call' = [op |-> "search_games", name |-> collection_name,
                           raised |-> out.raised, limit |-> PipelineLimit,
                           threshold |-> PipelineThreshold,
                           returned |-> out.results]
          /\ pre' = colls
          /\ UNCHANGED <<embedding_dim, collection_name, colls>>

InstCountGames ==
    \E r \in 1..Len(inst.names) : \E out \in CountOutcomes :
       /\ OnInstance(r)
       /\ last_call' = [op |-> "count_games", name |-> collection_name,
                        raised |-> out.raised, reply |-> out.reply,
                        returned |-> out.value]
       /\ pre' = colls
       /\ UNCHANGED <<embedding_dim, collection_name, colls>>

(* ------------------------- app.py: session state --------------------- *)
DataSources == {"Local DB", "Sample Data", "Live API (requires API key)"}
AppQueries == {<<>>, <<"cozy">>}

\* the four keys of st.session_state that the setup writes
Handles(ss) ==
    [engine_initialized |-> ss.engine_initialized,
     games_loaded |-> ss.games_loaded,
     vector_store |-> ss.vector_store,
     recommendation_engine |-> ss.recommendation_engine]

\* lines 22-36: the defaults of a new session and the probe of this run
FirstRun(avail) ==
    [page |-> "app", engine_initialized |-> FALSE, games_loaded |-> FALSE,
     vector_store |-> FALSE, recommendation_engine |-> FALSE,
     vector_store_initialized |-> avail,
     last |-> [op |-> "none"]]

\* the calls of initialize_recommendation_engine(quick) that can raise, in
\* the order they are made; "none": none of them raises
InitCalls(quick) ==
    IF quick
      THEN {"GameVectorStore", "GameRecommendationEngine", "count_games", "none"}
      ELSE {"GameVectorStore", "create_collection", "load_games",
            "add_games_to_collection", "GameRecommendationEngine",
            "count_games", "none"}

\* lines 154-157 are reached before the call that raises
Assigned(failed_at) == failed_at \in {"count_games", "none"}

\* initialize_recommendation_engine(quick) in a run whose call failed_at
\* raises: the session state written, and what the page shows
initialize_recommendation_engine(ss, quick, source, failed_at) ==
    [(IF Assigned(failed_at)
        THEN [ss EXCEPT !.vector_store = TRUE,
                        !.recommendation_engine = TRUE,
                        !.engine_initialized = TRUE,
                        !.games_loaded = TRUE]
        ELSE ss)
     EXCEPT !.last = [op |-> "initialize", quick |-> quick, source |-> source,
                      failed_at |-> failed_at, before |-> Handles(ss),
                      shown |-> IF failed_at = "none" THEN "success"
                                ELSE "error",
                      invoked |-> FALSE]]

\* a click on one of the two setup buttons, enabled while the backend probe
\* of the run that drew them succeeded; the run the click starts probes again
Initialize ==
    /\ session.page = "app"
    /\ session.vector_store_initialized
    /\ \E quick \in BOOLEAN, source \in DataSources, avail \in BOOLEAN :
          \E failed_at \in InitCalls(quick) :
             session' = initialize_recommendation_engine(
                           [session EXCEPT !.vector_store_initialized = avail],
                           quick, source, failed_at)
    /\ UNCHANGED <<store_vars, flow_vars, embedding_model, loads, threads,
                   cleanup, inst, db, fetch, embed>>

\* the Find Games handler, lines 193-205 and 254-255
find_games(ss, query, raises) ==
    LET invoked == ss.engine_initialized /\ ss.recommendation_engine
    IN [ss EXCEPT !.last =
          [op |-> "find_games", quick |-> FALSE, source |-> "",
           failed_at |-> IF invoked /\ raises THEN "recommend_games"
                         ELSE "none",
           before |-> Handles(ss),
           shown |-> IF ~ss.engine_initialized THEN "warning"
                     ELSE IF ~ss.recommendation_engine THEN "error"
                     ELSE IF raises THEN "error" ELSE "recommendations",
           invoked |-> invoked]]

\* a click on Find Games, disabled unless the engine is initialized, the
\* games are loaded and the query is not empty
FindGames ==
    /\ session.page = "app"
    /\ \E query \in AppQueries, avail \in BOOLEAN, raises \in BOOLEAN :
          /\ ~(~session.engine_initialized \/ ~session.games_loaded
                \/ query = <<>>)
          /\ session' = find_games(
                           [session EXCEPT !.vector_store_initialized = avail],
                           query, raises)
    /\ UNCHANGED <<store_vars, flow_vars, embedding_model, loads, threads,
                   cleanup, inst, db, fetch, embed>>

\* any other interaction: the script runs again and probes the backend
Rerun ==
    /\ session.page = "app"
    /\ \E avail \in BOOLEAN :
          session' = [session EXCEPT !.vector_store_initialized = avail]
    /\ UNCHANGED <<store_vars, flow_vars, embedding_model, loads, threads,
                   cleanup, inst, db, fetch, embed>>

(* ------------------ generate_game_embedding on a record --------------- *)
MaxCaptions == 2
CaptionLists == UNION {[1..n -> {"c1", "c2"}] : n \in 0..MaxCaptions}

\* a record as a dict of the sample data (captions a list) and as a row of
\* data/games.db (captions the stored text, or NULL when never written)
EmbedRecords ==
    {[game |-> [GameOf(<<"g1">>, name, desc, <<"link">>)
                  EXCEPT !.app_category = cat, !.screenshot_captions = v.field],
      captions |-> v.list] :
       name \in {<<"forest">>, <<>>, None},
       cat \in {<<"GAME_ADVENTURE">>, None},
       desc \in {<<"explore">>, <<>>, None},
       v \in {[field |-> l, list |-> l] : l \in CaptionLists}
            \cup {[field |-> StoredValue(l), list |-> l] : l \in CaptionLists}
            \cup {[field |-> None, list |-> <<>>]}}

\* generate_game_embedding, lines 100-124: combined_text
GenerateEmbedding ==
    /\ embed.stage = "record"
    /\ embed' = [stage |-> "done", game |-> embed.game,
                 captions |-> embed.captions,
                 text |-> TextFields(embed.game)]
    /\ UNCHANGED <<store_vars, flow_vars, embedding_model, loads, threads,
                   cleanup, inst, db, session, fetch>>

(* ------------------------ data/games.db: table apps ------------------ *)
MaxSaved == 2
DbIds == {"g1", "g2"}
NoRow == [present |-> FALSE, app_name |-> "", screenshot_captions |-> None]
FetchedGames == [app_id : DbIds, app_name : {"v1", "v2"}]
\* the captions a processor writes: none found, or the list of captions
WrittenCaptions == {<<>>, <<"a forest">>}
SavedBatches == UNION {[1..n -> FetchedGames] : n \in 1..MaxSaved}

\* INSERT OR REPLACE INTO apps (the 37 columns of the statement): a row with
\* this app_id is deleted, and the new row has NULL in every column the
\* statement does not list, screenshot_captions among them
RECURSIVE InsertOrReplace(_, _, _)
InsertOrReplace(rows, games, i) ==
    IF i > Len(games) THEN rows
    ELSE InsertOrReplace(
            [rows EXCEPT ![games[i].app_id] =
                [present |-> TRUE, app_name |-> games[i].app_name,
                 screenshot_captions |-> None]],
            games, i + 1)

\* StoreAppsFetcher.save_games_to_db(games)
save_games_to_db ==
    \E games \in SavedBatches :
       db' = [rows |-> InsertOrReplace(db.rows, games, 1),
              pre |-> db.rows,
              last |-> [op |-> "save_games_to_db",
                        ids |-> {games[i].app_id : i \in 1..Len(games)}]]

\* DBConnector.add_data_to_game(app_id, {"screenshot_captions": captions}):
\* UPDATE apps SET screenshot_captions = ? WHERE app_id = ?
add_data_to_game ==
    \E id \in DbIds, captions \in WrittenCaptions :
       db' = [rows |-> IF db.rows[id].present
                         THEN [db.rows EXCEPT ![id].screenshot_captions =
                                  StoredValue(captions)]
                         ELSE db.rows,
              pre |-> db.rows,
              last |-> [op |-> "add_data_to_game", ids |-> {id}]]

SaveGamesToDb ==
    /\ db # NoDb
    /\ save_games_to_db
    /\ UNCHANGED <<store_vars, flow_vars, embedding_model, loads, threads,
                   cleanup, inst, session, fetch, embed>>

AddDataToGame ==
    /\ db # NoDb
    /\ add_data_to_game
    /\ UNCHANGED <<store_vars, flow_vars, embedding_model, loads, threads,
                   cleanup, inst, session, fetch, embed>>

\* s[:n] for n >= 0
Prefix(s, n) == SubSeq(s, 1, Min(Len(s), n))

(* ------------------ GooglePlayStoreFetcher.fetch_games ---------------- *)
PageSize == 100
MaxPages == 2
Limits ==
    {0, 1} \cup {k * PageSize + d : k \in 1..MaxPages, d \in {0 - 1, 0, 1}}

\* what _make_api_request gives for one page: it raises, or it returns a
\* response with a status and n games under "data"
Responses ==
    {[kind |-> "raised", n |-> 0], [kind |-> "ERROR", n |-> 0],
     [kind |-> "OK", n |-> 0]}
    \cup {[kind |-> "OK", n |-> n] : n \in {1, PageSize - 1, PageSize, PageSize + 1}}

\* the games of a page, each named by its page and its place in the page
Batch(page, n) == [j \in 1..n |-> <<page, j>>]

\* line 49: status is not OK, or data is empty
NoData(r) == r.kind # "OK" \/ r.n = 0

PagingGoesOnAlways(r) == TRUE

\* lines 60-61 negated: the page was full, the loop goes on
PagingGoesOn(r) == ~(r.n < PageSize)

\* one pass of the while loop of fetch_games, lines 43-68
FetchPage ==
    /\ fetch.pc = "while"
    /\ IF Len(fetch.games) < fetch.limit
         THEN \E r \in Responses :
                 fetch' =
                    IF r.kind = "raised" \/ NoData(r)
                      THEN [fetch EXCEPT !.responses = Append(@, r),
                                         !.pc = "return"]
                    ELSE [fetch EXCEPT
                            !.responses = Append(@, r),
                            !.games = @ \o Batch(fetch.page, r.n),
                            !.page = IF PagingGoesOn(r) THEN @ + 1 ELSE @,
                            !.pc = IF PagingGoesOn(r) THEN "while"
                                   ELSE "return"]
         ELSE fetch' = [fetch EXCEPT !.pc = "return"]
    /\ UNCHANGED <<store_vars, flow_vars, embedding_model, loads, threads,
                   cleanup, inst, db, session, embed>>

\* line 70: return games[:limit]
FetchReturn ==
    /\ fetch.pc = "return"
    /\ fetch' = [fetch EXCEPT !.pc = "done",
                              !.returned = Prefix(fetch.games, fetch.limit)]
    /\ UNCHANGED <<store_vars, flow_vars, embedding_model, loads, threads,
                   cleanup, inst, db, session, embed>>

(* ----------------------- format_results: the prompt ------------------- *)
CaptionLimit == 2
SnippetLimit == 200
StoreLink == "https://play.google.com/store/apps/details?id="

\* format_results, lines 161-176: the lines written for hit number i
RenderHit(i, r) ==
    [ordinal |-> i,
     name |-> r.app_name,
     link |-> <<StoreLink>> \o r.app_id,
     score |-> r.similarity_score,
     category |-> r.app_category,
     captions |-> IF r.screenshot_captions \in {None, <<>>} THEN <<>>
                  ELSE Prefix(r.screenshot_captions, CaptionLimit),
     description |-> IF r.app_description = <<>> THEN <<>>
                     ELSE <<"Description:">>
                          \o Prefix(r.app_description, SnippetLimit)
                          \o <<"...">>]

\* format_results, lines 160-180: results_text and the prompt
ResultsText(results) == [i \in 1..Len(results) |-> RenderHit(i, results[i])]
FormatPrompt(st) ==
    [user_query |-> st.user_query,
     search_results |-> ResultsText(st.search_results)]

(* ---------------- hits handed to format_results ----------------------- *)
MaxHits == 3
LongText == [i \in 1..(SnippetLimit + 1) |-> "w"]

HitOf(id, captions, desc, score) ==
    [app_id |-> id, app_name |-> <<"Game">> \o id,
     app_category |-> <<"GAME_ADVENTURE">>, app_description |-> desc,
     rating |-> <<"4.5">>, screenshot_captions |-> captions,
     app_icon |-> <<"icon">>, app_page_link |-> <<"link">>,
     similarity_score |-> score]

\* hits for points indexed from a list of dicts (captions a list) and from
\* rows of data/games.db (captions the stored JSON text, or NULL)
RenderHits ==
    {HitOf(<<"h1">>, <<"c1", "c2", "c3">>, LongText, 90),
     HitOf(<<"h2">>, <<>>, <<>>, 80),
     HitOf(<<"h3">>, StoredValue(<<"c1", "c2", "c3">>), <<"short">>, 70),
     HitOf(<<"h4">>, StoredValue(None), <<"short">>, 60)}

\* what search_games can return: different points, best first, at most 5
HitLists ==
    {hs \in UNION {[1..n -> RenderHits] : n \in 1..Min(MaxHits, PipelineLimit)} :
        \A i, j \in 1..Len(hs) :
           i < j => hs[i].similarity_score > hs[j].similarity_score}

PointOfHit(h) ==
    [id |-> h.app_id, vector |-> [dim |-> ModelDim, dir |-> 0],
     payload |-> [k \in DOMAIN h \ {"similarity_score"} |-> h[k]]]

\* llm.invoke: it answers with one of the contents, or raises
LLMOutcomes(contents) ==
    {[raised |-> TRUE, content |-> <<>>]}
    \cup {[raised |-> FALSE, content |-> c] : c \in contents}

\* a node's return value is merged into the graph State
Update(st, upd) == upd @@ st

\* build_graph: the entry point, the edges and the conditional edge
EntryPoint == "enhance_query"
Edges == {<<"enhance_query", "search_games">>, <<"format_results", "END">>}

get_node_based_on_results_swapped(st) ==
    IF st.search_results # <<>> /\ Len(st.search_results) > 0
      THEN "no_results" ELSE "format_results"

get_node_based_on_results(st) ==
    IF st.search_results # <<>> /\ Len(st.search_results) > 0
      THEN "format_results" ELSE "no_results"

NextNodeLoops(n, st) ==
    IF n = "search_games" THEN get_node_based_on_results(st)
    ELSE IF n = "enhance_query" THEN "search_games"
    ELSE IF n = "format_results" THEN "END"
    ELSE "search_games"

\* the node that runs after node n returned: its conditional edge, else its
\* edge; a node with neither ends the run
NextNode(n, st) ==
    IF n = "search_games" THEN get_node_based_on_results(st)
    ELSE IF \E e \in Edges : e[1] = n
      THEN (CHOOSE e \in Edges : e[1] = n)[2]
    ELSE "END"

NoState == <<>>
NoResult == [returned |-> FALSE]
NoError == [raised |-> FALSE]

PropagatedSwallowed(n, cs, err) == err

\* the exception of a failing external call: no node and no caller catches
\* it, so it leaves graph.invoke and recommend_games as it was raised
Exc(call) == [raised |-> TRUE, raised_by |-> call]
Propagated(n, cs, err) == IF n = "raised" THEN Exc(cs[Len(cs)]) ELSE err

\* recommend_games(user_query), lines 228-234: the initial state enters the graph
Recommend ==
    /\ node \in {"idle", "returned", "raised"}
    /\ \E q \in UserQueries :
          /\ arg_query' = q
          /\ state' = [user_query |-> q]
    /\ node' = EntryPoint
    /\ visited' = <<>>
    /\ calls' = <<>>
    /\ result' = NoResult
    /\ error' = NoError
    /\ got' = <<>>
    /\ UNCHANGED other
    /\ UNCHANGED <<store_vars, aux_vars>>

enhance_query_overwrites(out) ==
    /\ calls' = Append(calls, "llm")
    /\ IF out.raised
         THEN /\ node' = "raised"
              /\ UNCHANGED state
         ELSE /\ state' = Update(state, [user_query |-> CleanMsg(out.content),
                                         enhanced_query |-> CleanMsg(out.content)])
              /\ node' = "search_games"

\* node enhance_query
enhance_query(out) ==
    /\ calls' = Append(calls, "llm")
    /\ IF out.raised
         THEN /\ node' = "raised"
              /\ UNCHANGED state
         ELSE /\ state' = Update(state, [enhanced_query |-> CleanMsg(out.content)])
              /\ node' = NextNode("enhance_query", state')

EnhanceQuery ==
    /\ node = "enhance_query"
    /\ visited' = Append(visited, node)
    /\ \E out \in LLMOutcomes(EnhancerContents) :
          /\ enhance_query(out)
          /\ got' = Append(got, out)
    /\ error' = Propagated(node', calls', error)
    /\ UNCHANGED <<arg_query, result, other>>
    /\ UNCHANGED <<store_vars, aux_vars>>

\* node search_games: count_games() for the log line, then search_games
search_games(cnt, out) ==
    IF cnt.raised
      THEN /\ calls' = Append(calls, "count")
           /\ node' = "raised"
           /\ UNCHANGED state
    ELSE /\ calls' = calls \o <<"count">> \o out.calls
         /\ IF out.raised
              THEN /\ node' = "raised"
                   /\ UNCHANGED state
              ELSE /\ state' = Update(state, [search_results |-> out.results])
                   /\ node' = NextNode("search_games", state')

SearchQueryRaw(st) == st.user_query

\* search_games node, line 152: query=state["enhanced_query"]
SearchQuery(st) == st.enhanced_query

SearchGames ==
    /\ node = "search_games"
    /\ visited' = Append(visited, node)
    /\ \E cnt \in CountOutcomes :
         \E out \in SearchOutcomes(SearchQuery(state), PipelineLimit,
                                   PipelineThreshold) :
            /\ search_games(cnt, out)
            /\ got' = got \o <<cnt>> \o (IF cnt.raised THEN <<>> ELSE <<out>>)
    /\ error' = Propagated(node', calls', error)
    /\ UNCHANGED <<arg_query, result, other>>
    /\ UNCHANGED <<store_vars, aux_vars>>

format_results_degrades(out) ==
    /\ calls' = Append(calls, "llm")
    /\ state' = Update(state, [final_recommendation |->
                                 IF out.raised THEN NoResultsText
                                 ELSE out.content])
    /\ node' = "END"

\* node format_results
format_results(out) ==
    /\ calls' = Append(calls, "llm")
    /\ IF out.raised
         THEN /\ node' = "raised"
              /\ UNCHANGED state
         ELSE /\ state' = Update(state, [final_recommendation |-> out.content])
              /\ node' = NextNode("format_results", state')

FormatResults ==
    /\ node = "format_results"
    /\ visited' = Append(visited, node)
    /\ \E out \in LLMOutcomes(FormatterContents) :
          /\ format_results(out)
          /\ got' = Append(got, [prompt |-> FormatPrompt(state)] @@ out)
    /\ error' = Propagated(node', calls', error)
    /\ UNCHANGED <<arg_query, result, other>>
    /\ UNCHANGED <<store_vars, aux_vars>>

no_results_blank ==
    /\ state' = Update(state, [final_recommendation |-> <<>>])
    /\ node' = "END"
    /\ UNCHANGED calls

no_results_asks_llm ==
    /\ state' = Update(state, [final_recommendation |-> NoResultsText])
    /\ node' = "END"
    /\ calls' = Append(calls, "llm")

\* node no_results
no_results ==
    /\ state' = Update(state, [final_recommendation |-> NoResultsText])
    /\ node' = NextNode("no_results", state')
    /\ UNCHANGED calls

NoResults ==
    /\ node = "no_results"
    /\ visited' = Append(visited, node)
    /\ no_results
    /\ UNCHANGED <<arg_query, result, error, got, other>>
    /\ UNCHANGED <<store_vars, aux_vars>>

ReturnResultShared ==
    /\ node = "END"
    /\ LET st == IF "final_recommendation" \in DOMAIN other.state
                   THEN other.state ELSE state
       IN result' = [returned |-> TRUE,
                     user_query |-> st.user_query,
                     enhanced_query |-> st.enhanced_query,
                     recommendations |-> st.search_results,
                     recommendation_text |-> st.final_recommendation]
    /\ node' = "returned"
    /\ UNCHANGED <<state, visited, calls, arg_query, error, got, other>>
    /\ UNCHANGED <<store_vars, aux_vars>>

\* recommend_games, lines 239-244: graph.invoke returned, the dict is built
ReturnResult ==
    /\ node = "END"
    /\ result' = [returned |-> TRUE,
                  user_query |-> state.user_query,
                  enhanced_query |-> state.enhanced_query,
                  recommendations |-> state.search_results,
                  recommendation_text |-> state.final_recommendation]
    /\ node' = "returned"
    /\ UNCHANGED <<state, visited, calls, arg_query, error, got, other>>
    /\ UNCHANGED <<store_vars, aux_vars>>

(* ------------------------- calls that never return -------------------- *)
\* the external calls of a node that carry no timeout: llm.invoke (ChatOpenAI
\* is built without one) and embedding_model.encode (a local computation)
UnboundedCalls(n) ==
    IF n = "search_games" THEN <<"count", "encode">> ELSE <<"llm">>

\* a node whose llm.invoke or encode call never returns: the node does not
\* return either, and graph.invoke and recommend_games wait with it
Stall ==
    /\ node \in {"enhance_query", "search_games", "format_results"}
    /\ visited' = Append(visited, node)
    /\ calls' = calls \o UnboundedCalls(node)
    /\ IF node = "search_games"
         THEN \E cnt \in CountOutcomes :
                 /\ ~cnt.raised
                 /\ got' = Append(got, cnt)
         ELSE UNCHANGED got
    /\ node' = "blocked"
    /\ UNCHANGED <<state, arg_query, result, error, other>>
    /\ UNCHANGED <<store_vars, aux_vars>>

(* ------------------- two recommend_games invocations ------------------ *)
\* the locals of a recommend_games invocation that is not running right now
IdleFrame ==
    [node |-> "idle", state |-> NoState, visited |-> <<>>, calls |-> <<>>,
     arg_query |-> <<>>, result |-> NoResult, error |-> NoError, got |-> <<>>]

ThisFrame ==
    [node |-> node, state |-> state, visited |-> visited, calls |-> calls,
     arg_query |-> arg_query, result |-> result, error |-> error, got |-> got]

\* the running invocation is suspended and the other one goes on: each
\* invocation keeps its own initial_state dict and its own graph State
Switch ==
    /\ other' = ThisFrame
    /\ node' = other.node
    /\ state' = other.state
    /\ visited' = other.visited
    /\ calls' = other.calls
    /\ arg_query' = other.arg_query
    /\ result' = other.result
    /\ error' = other.error
    /\ got' = other.got
    /\ UNCHANGED <<store_vars, aux_vars>>

(* ---------------- threads constructing a GameVectorStore -------------- *)
NumThreads == 3
Threads == 1..NumThreads

NotStarted == [pc |-> "start", error |-> ""]
Constructed == [pc |-> "constructed", error |-> ""]
At_(t, pc) == threads[t].pc = pc
Goto(t, pc) == threads' = [threads EXCEPT ![t].pc = pc]
Raise(t, e) == threads' = [threads EXCEPT ![t] = [pc |-> "raised", error |-> e]]

\* __init__, line 37: if GameVectorStore.embedding_model is None
InitCheckModel ==
    \E t \in Threads :
        /\ At_(t, "start")
        /\ Goto(t, IF embedding_model = 0 THEN "load" ELSE "client")
        /\ UNCHANGED <<embedding_model, loads, embedding_dim, collection_name,
                       colls>>
        /\ UNCHANGED <<pre, last_call, cleanup, inst, db, session, fetch,
                       embed>>
        /\ UNCHANGED flow_vars

\* __init__, lines 38-39: a SentenceTransformer is built and assigned
InitLoadModel ==
    \E t \in Threads :
        /\ At_(t, "load")
        /\ loads' = loads + 1
        /\ embedding_model' = loads + 1
        /\ Goto(t, "dim")
        /\ UNCHANGED <<embedding_dim, collection_name, colls>>
        /\ UNCHANGED <<pre, last_call, cleanup, inst, db, session, fetch,
                       embed>>
        /\ UNCHANGED flow_vars

\* __init__, lines 40-43: the dimension of the model is assigned
InitSetDim ==
    \E t \in Threads :
        /\ At_(t, "dim")
        /\ embedding_dim' = ModelDim
        /\ Goto(t, "client")
        /\ UNCHANGED <<embedding_model, loads, collection_name, colls>>
        /\ UNCHANGED <<pre, last_call, cleanup, inst, db, session, fetch,
                       embed>>
        /\ UNCHANGED flow_vars

\* __init__, lines 47-48: client and collection_name are assigned
InitSetClient ==
    \E t \in Threads :
        /\ At_(t, "client")
        /\ collection_name' = DefaultCollection
        /\ Goto(t, "constructed")
        /\ UNCHANGED <<embedding_model, loads, embedding_dim, colls>>
        /\ UNCHANGED <<pre, last_call, cleanup, inst, db, session, fetch,
                       embed>>
        /\ UNCHANGED flow_vars

\* create_collection, lines 70-75: get_collections and the membership test
CreateCollectionCheck ==
    \E t \in Threads :
        /\ At_(t, "constructed")
        /\ Goto(t, IF Exists(colls, collection_name) THEN "done" ELSE "create")
        /\ UNCHANGED <<embedding_model, loads, embedding_dim, collection_name,
                       colls>>
        /\ UNCHANGED <<pre, last_call, cleanup, inst, db, session, fetch,
                       embed>>
        /\ UNCHANGED flow_vars

\* create_collection, lines 78-87: the dimension test and the create request;
\* the backend refuses to create a collection whose name is taken, and
\* nothing catches its error
CreateCollectionRequest ==
    \E t \in Threads :
        /\ At_(t, "create")
        /\ IF embedding_dim = 0
             THEN Raise(t, "ValueError") /\ UNCHANGED colls
           ELSE IF Exists(colls, collection_name)
             THEN Raise(t, "already exists") /\ UNCHANGED colls
           ELSE /\ colls' = [colls EXCEPT ![collection_name] =
                                NewCollection(embedding_dim)]
                /\ Goto(t, "done")
        /\ UNCHANGED <<embedding_model, loads, embedding_dim, collection_name>>
        /\ UNCHANGED <<pre, last_call, cleanup, inst, db, session, fetch,
                       embed>>
        /\ UNCHANGED flow_vars

(* --------------------- the cleanup of enhance_query ------------------- *)
MaxRaw == 2
NoCleanup == [stage |-> "none", raw |-> <<>>, once |-> <<>>, twice |-> <<>>]

RawTokens == {DQ, SQ, STAR, SP, NL, ":", "Search", "query", "Query", "foo"}

RECURSIVE SeqsUpTo(_, _)
SeqsUpTo(S, n) ==
    IF n = 0 THEN {<<>>}
    ELSE LET shorter == SeqsUpTo(S, n - 1)
         IN shorter \cup {Append(s, x) : s \in shorter, x \in S}

Opt(s) == {<<>>, s}

\* answers that open with a label: quote, bold markup, the two words, bold
\* markup, colon, bold markup, blank, then the query and a closing quote
LabelledOutputs ==
    {q1 \o b1 \o <<"Search", SP, w>> \o b2 \o c \o b3 \o sp \o body \o q2 :
       q1 \in Opt(<<DQ>>), b1 \in Opt(<<STAR, STAR>>), w \in {"query", "Query"},
       b2 \in Opt(<<STAR, STAR>>), c \in Opt(<<":">>), b3 \in Opt(<<STAR, STAR>>),
       sp \in Opt(<<SP>>), body \in {<<"foo">>, <<"bar">>},
       q2 \in Opt(<<DQ>>)}

\* enhanced_query.content: any short answer, a labelled answer, or an
\* answer wrapped in more than one pair of quotes
RawOutputs ==
    SeqsUpTo(RawTokens, MaxRaw)
    \cup LabelledOutputs
    \cup {<<DQ, DQ, "foo", DQ, DQ>>,
          <<"Search", SP, "query", ":", SP, "Search", SP, "query", ":", SP,
            "foo">>}

\* enhance_query, lines 133-142, applied to the raw answer
CleanOnce ==
    /\ cleanup.stage = "raw"
    /\ cleanup' = [cleanup EXCEPT !.stage = "once", !.once = CleanMsg(cleanup.raw)]
    /\ UNCHANGED <<store_vars, flow_vars, embedding_model, loads, threads,
                   inst, db, session, fetch, embed>>

\* the same cleanup applied to its own output
CleanTwice ==
    /\ cleanup.stage = "once"
    /\ cleanup' = [cleanup EXCEPT !.stage = "twice",
                                  !.twice = CleanMsg(cleanup.once)]
    /\ UNCHANGED <<store_vars, flow_vars, embedding_model, loads, threads,
                   inst, db, session, fetch, embed>>

(* -------------------------- specifications ---------------------------- *)
\* a GameVectorStore has been constructed with the default collection name
\* against a backend that holds no collection; no recommend_games call yet
Init ==
    /\ embedding_dim = ModelDim
    /\ collection_name = DefaultCollection
    /\ colls = [n \in CollectionNames |-> Absent]
    /\ pre = colls
    /\ last_call = NoCall
    /\ node = "idle"
    /\ state = NoState
    /\ visited = <<>>
    /\ calls = <<>>
    /\ arg_query = <<>>
    /\ result = NoResult
    /\ error = NoError
    /\ got = <<>>
    /\ other = IdleFrame
    /\ Unused
    /\ embedding_model = 1
    /\ loads = 1
    /\ threads = [t \in Threads |-> Constructed]
    /\ cleanup = NoCleanup

NextStore ==
    \/ CreateCollection
    \/ AddGames
    \/ Search
    \/ CountGames
    \/ IsBackendAvailable

SpecStore == Init /\ [][NextStore]_vars

\* a store constructed against a backend that outlives the process: the
\* collection may be there already, created earlier for an embedding model
\* of another dimension (embedding_model_name is a constructor argument)
OtherDim == 2 * ModelDim

InitPersisted ==
    /\ embedding_dim = ModelDim
    /\ collection_name = DefaultCollection
    /\ colls \in {[n \in CollectionNames |-> Absent],
                  [n \in CollectionNames |-> NewCollection(OtherDim)]}
    /\ pre = colls
    /\ last_call = NoCall
    /\ node = "idle"
    /\ state = NoState
    /\ visited = <<>>
    /\ calls = <<>>
    /\ arg_query = <<>>
    /\ result = NoResult
    /\ error = NoError
    /\ got = <<>>
    /\ other = IdleFrame
    /\ Unused
    /\ embedding_model = 1
    /\ loads = 1
    /\ threads = [t \in Threads |-> Constructed]
    /\ cleanup = NoCleanup

SpecPersisted == InitPersisted /\ [][NextStore]_vars

\* the collections an engine may be built over: none yet, or the default
\* collection after create_collection and one add_games_to_collection
SeededCollections ==
    {[n \in CollectionNames |-> Absent]}
    \cup {[n \in CollectionNames |->
             [NewCollection(ModelDim) EXCEPT !.points =
                 UpsertPoints({}, BuildPoints(b, {}, ModelDim, 1))]] :
          b \in Batches}

InitFlow ==
    /\ embedding_dim = ModelDim
    /\ collection_name = DefaultCollection
    /\ colls \in SeededCollections
    /\ pre = colls
    /\ last_call = NoCall
    /\ node = "idle"
    /\ state = NoState
    /\ visited = <<>>
    /\ calls = <<>>
    /\ arg_query = <<>>
    /\ result = NoResult
    /\ error = NoError
    /\ got = <<>>
    /\ other = IdleFrame
    /\ Unused
    /\ embedding_model = 1
    /\ loads = 1
    /\ threads = [t \in Threads |-> Constructed]
    /\ cleanup = NoCleanup

NextFlow ==
    \/ Recommend
    \/ EnhanceQuery
    \/ SearchGames
    \/ FormatResults
    \/ NoResults
    \/ ReturnResult

SpecFlow == InitFlow /\ [][NextFlow]_vars

\* a store that is fed from the sample data and from data/games.db
NextCatalog ==
    \/ CreateCollection
    \/ AddCatalogGames
    \/ Search
    \/ CountGames

SpecCatalog == Init /\ [][NextCatalog]_vars

\* fetch_games(limit) at its first line
InitFetch ==
    /\ fetch \in {[pc |-> "while", limit |-> limit, games |-> <<>>, page |-> 1,
                    responses |-> <<>>, returned |-> <<>>] : limit \in Limits}
    /\ inst = NoInst
    /\ db = NoDb
    /\ session = NoSession
    /\ embed = NoEmbed
    /\ embedding_model = 1
    /\ embedding_dim = ModelDim
    /\ loads = 1
    /\ collection_name = DefaultCollection
    /\ colls = [n \in CollectionNames |-> Absent]
    /\ pre = colls
    /\ last_call = NoCall
    /\ threads = [t \in Threads |-> Constructed]
    /\ cleanup = NoCleanup
    /\ node = "idle"
    /\ state = NoState
    /\ visited = <<>>
    /\ calls = <<>>
    /\ arg_query = <<>>
    /\ result = NoResult
    /\ error = NoError
    /\ got = <<>>
    /\ other = IdleFrame

NextFetch ==
    \/ FetchPage
    \/ FetchReturn

\* the call runs on: every request is answered, by a response or an error
SpecFetch == InitFetch /\ [][NextFetch]_vars /\ WF_vars(NextFetch)

\* an empty table apps
InitDb ==
    /\ db = [rows |-> [id \in DbIds |-> NoRow],
             pre |-> [id \in DbIds |-> NoRow],
             last |-> [op |-> "none", ids |-> {}]]
    /\ inst = NoInst
    /\ session = NoSession
    /\ fetch = NoFetch
    /\ embed = NoEmbed
    /\ embedding_model = 1
    /\ embedding_dim = ModelDim
    /\ loads = 1
    /\ collection_name = DefaultCollection
    /\ colls = [n \in CollectionNames |-> Absent]
    /\ pre = colls
    /\ last_call = NoCall
    /\ threads = [t \in Threads |-> Constructed]
    /\ cleanup = NoCleanup
    /\ node = "idle"
    /\ state = NoState
    /\ visited = <<>>
    /\ calls = <<>>
    /\ arg_query = <<>>
    /\ result = NoResult
    /\ error = NoError
    /\ got = <<>>
    /\ other = IdleFrame

NextDb ==
    \/ SaveGamesToDb
    \/ AddDataToGame

SpecDb == InitDb /\ [][NextDb]_vars

\* a browser session after the first run of app.py
InitApp ==
    /\ session \in {FirstRun(avail) : avail \in BOOLEAN}
    /\ inst = NoInst
    /\ db = NoDb
    /\ fetch = NoFetch
    /\ embed = NoEmbed
    /\ embedding_model = 1
    /\ embedding_dim = ModelDim
    /\ loads = 1
    /\ collection_name = DefaultCollection
    /\ colls = [n \in CollectionNames |-> Absent]
    /\ pre = colls
    /\ last_call = NoCall
    /\ threads = [t \in Threads |-> Constructed]
    /\ cleanup = NoCleanup
    /\ node = "idle"
    /\ state = NoState
    /\ visited = <<>>
    /\ calls = <<>>
    /\ arg_query = <<>>
    /\ result = NoResult
    /\ error = NoError
    /\ got = <<>>
    /\ other = IdleFrame

NextApp ==
    \/ Initialize
    \/ FindGames
    \/ Rerun

SpecApp == InitApp /\ [][NextApp]_vars

\* a process in which the model is loaded and no instance exists yet
InitInst ==
    /\ inst = NoInst
    /\ db = NoDb
    /\ session = NoSession
    /\ fetch = NoFetch
    /\ embed = NoEmbed
    /\ embedding_model = 1
    /\ embedding_dim = ModelDim
    /\ loads = 1
    /\ collection_name = ""
    /\ colls = [n \in CollectionNames |-> Absent]
    /\ pre = colls
    /\ last_call = NoCall
    /\ threads = [t \in Threads |-> Constructed]
    /\ cleanup = NoCleanup
    /\ node = "idle"
    /\ state = NoState
    /\ visited = <<>>
    /\ calls = <<>>
    /\ arg_query = <<>>
    /\ result = NoResult
    /\ error = NoError
    /\ got = <<>>
    /\ other = IdleFrame

NextInst ==
    \/ Construct
    \/ InstCreateCollection
    \/ InstAddGames
    \/ InstSearch
    \/ InstCountGames

SpecInst == InitInst /\ [][NextInst]_vars

\* generate_game_embedding as a function of the record
InitEmbed ==
    /\ embed \in {[stage |-> "record", game |-> r.game, captions |-> r.captions] :
                    r \in EmbedRecords}
    /\ inst = NoInst
    /\ db = NoDb
    /\ session = NoSession
    /\ fetch = NoFetch
    /\ embedding_model = 1
    /\ embedding_dim = ModelDim
    /\ loads = 1
    /\ collection_name = DefaultCollection
    /\ colls = [n \in CollectionNames |-> Absent]
    /\ pre = colls
    /\ last_call = NoCall
    /\ threads = [t \in Threads |-> Constructed]
    /\ cleanup = NoCleanup
    /\ node = "idle"
    /\ state = NoState
    /\ visited = <<>>
    /\ calls = <<>>
    /\ arg_query = <<>>
    /\ result = NoResult
    /\ error = NoError
    /\ got = <<>>
    /\ other = IdleFrame

NextEmbed ==
    \/ GenerateEmbedding

SpecEmbed == InitEmbed /\ [][NextEmbed]_vars

\* an invocation whose search stage has just returned its hits
InitRender ==
    /\ embedding_dim = ModelDim
    /\ collection_name = DefaultCollection
    /\ colls = [n \in CollectionNames |->
                 [NewCollection(ModelDim) EXCEPT !.points =
                     {PointOfHit(h) : h \in RenderHits}]]
    /\ pre = colls
    /\ last_call = NoCall
    /\ \E q \in UserQueries, hs \in HitLists :
          /\ arg_query = q
          /\ state = [user_query |-> q, enhanced_query |-> <<"forest">>,
                      search_results |-> hs]
          /\ got = <<[raised |-> FALSE, content |-> <<"forest">>],
                     count_games([failed |-> FALSE,
                                  points_count |-> Cardinality(RenderHits)]),
                     [raised |-> FALSE, query |-> <<"forest">>,
                      results |-> hs, calls |-> <<"encode", "search">>]>>
    /\ node = "format_results"
    /\ visited = <<"enhance_query", "search_games">>
    /\ calls = <<"llm", "count", "encode", "search">>
    /\ result = NoResult
    /\ error = NoError
    /\ other = IdleFrame
    /\ Unused
    /\ embedding_model = 1
    /\ loads = 1
    /\ threads = [t \in Threads |-> Constructed]
    /\ cleanup = NoCleanup

NextRender ==
    \/ FormatResults
    \/ ReturnResult

SpecRender == InitRender /\ [][NextRender]_vars

\* recommend_games when an external call may stall forever
NextStall ==
    \/ NextFlow
    \/ Stall

SpecStall == InitFlow /\ [][NextStall]_vars

\* two recommend_games invocations on one engine, interleaved at will
NextTwo ==
    \/ NextFlow
    \/ Switch

SpecTwo == InitFlow /\ [][NextTwo]_vars

\* a process in which no GameVectorStore has been constructed yet; each
\* thread constructs one and calls create_collection
InitProcess ==
    /\ embedding_model = 0
    /\ embedding_dim = 0
    /\ loads = 0
    /\ collection_name = ""
    /\ colls = [n \in CollectionNames |-> Absent]
    /\ pre = colls
    /\ last_call = NoCall
    /\ threads = [t \in Threads |-> NotStarted]
    /\ cleanup = NoCleanup
    /\ node = "idle"
    /\ state = NoState
    /\ visited = <<>>
    /\ calls = <<>>
    /\ arg_query = <<>>
    /\ result = NoResult
    /\ error = NoError
    /\ got = <<>>
    /\ other = IdleFrame
    /\ Unused

NextThreads ==
    \/ InitCheckModel
    \/ InitLoadModel
    \/ InitSetDim
    \/ InitSetClient
    \/ CreateCollectionCheck
    \/ CreateCollectionRequest

SpecThreads == InitProcess /\ [][NextThreads]_vars

\* the cleanup of enhance_query as a function of the raw answer
InitClean ==
    /\ cleanup \in {[NoCleanup EXCEPT !.stage = "raw", !.raw = x] :
                      x \in RawOutputs}
    /\ embedding_model = 1
    /\ embedding_dim = ModelDim
    /\ loads = 1
    /\ collection_name = DefaultCollection
    /\ colls = [n \in CollectionNames |-> Absent]
    /\ pre = colls
    /\ last_call = NoCall
    /\ threads = [t \in Threads |-> Constructed]
    /\ node = "idle"
    /\ state = NoState
    /\ visited = <<>>
    /\ calls = <<>>
    /\ arg_query = <<>>
    /\ result = NoResult
    /\ error = NoError
    /\ got = <<>>
    /\ other = IdleFrame
    /\ Unused

NextClean ==
    \/ CleanOnce
    \/ CleanTwice

SpecClean == InitClean /\ [][NextClean]_vars

(* ------------------------------- claims ------------------------------- *)
Took(n) == node = n \/ n \in Range(visited)
Has(k) == k \in DOMAIN state

\* C1: once the search_games stage has set search_results, format_results is
\* taken iff search_results is non-empty and no_results iff it is empty,
\* exactly one of the two; before that neither is taken.
C1_BranchOnResults ==
    IF Has("search_results")
      THEN /\ Took("format_results") <=> state.search_results # <<>>
           /\ Took("no_results") <=> state.search_results = <<>>
           /\ Took("format_results") # Took("no_results")
      ELSE ~Took("format_results") /\ ~Took("no_results")

C1_Witness ==
    /\ node = "returned"
    /\ "format_results" \in Range(visited)
    /\ Len(state.search_results) = 2

\* C2: for every user query, when the search returns no hits the invocation
\* does not fail after the search and returns recommendation_text equal to
\* the literal "No results found" and recommendations equal to the empty list.
C2_NoResultsMessage ==
    (Has("search_results") /\ state.search_results = <<>>) =>
        /\ node \in {"no_results", "END", "returned"}
        /\ node \in {"END", "returned"} =>
              state.final_recommendation = NoResultsText
        /\ node = "returned" =>
              /\ result.returned
              /\ result.recommendation_text = NoResultsText
              /\ result.recommendations = <<>>
              /\ result.user_query = arg_query

C2_Witness ==
    /\ node = "returned"
    /\ result.recommendations = <<>>
    /\ Exists(colls, collection_name)
    /\ colls[collection_name].points = {}

\* C3 as stated: a successful invocation makes exactly one LLM call, one
\* encode call, one search call, then an LLM call iff search_results is
\* non-empty.
C3_CallsAsStated ==
    node = "returned" =>
        calls = <<"llm", "encode", "search">>
                \o (IF state.search_results # <<>> THEN <<"llm">> ELSE <<>>)

\* C3 amended: a successful invocation makes exactly one LLM call, one
\* count request to the vector backend, one encode call, one search call,
\* then an LLM call iff search_results is non-empty, in this order; and the
\* calls made so far are always a prefix of that sequence (none is retried).
C3_CallsWithCount ==
    /\ node = "returned" =>
          calls = <<"llm", "count", "encode", "search">>
                  \o (IF state.search_results # <<>> THEN <<"llm">> ELSE <<>>)
    /\ Len(calls) <= 5
    /\ \A i \in 1..Len(calls) :
          calls[i] = <<"llm", "count", "encode", "search", "llm">>[i]
    /\ (Has("search_results") /\ state.search_results = <<>>) => Len(calls) = 4

C3_Witness ==
    /\ node = "returned"
    /\ state.search_results # <<>>
    /\ Len(calls) = 5

\* C4: an invocation runs enhance_query, search_games, then format_results or
\* no_results, each at most once and in this order, and once the third node
\* has returned the run is at END, whichever of the two it was.
C4_SinglePath ==
    /\ node \in {"idle", "enhance_query", "search_games", "format_results",
                  "no_results", "END", "returned", "raised"}
    /\ \A i, j \in 1..Len(visited) : i < j => visited[i] # visited[j]
    /\ \/ visited = <<>>
       \/ visited = <<"enhance_query">>
       \/ visited = <<"enhance_query", "search_games">>
       \/ visited = <<"enhance_query", "search_games", "format_results">>
       \/ visited = <<"enhance_query", "search_games", "no_results">>
    /\ Len(visited) = 0 => node \in {"idle", "enhance_query"}
    /\ Len(visited) = 1 => node \in {"search_games", "raised"}
    /\ Len(visited) = 2 => node \in {"format_results", "no_results", "raised"}
    /\ (Len(visited) = 3 /\ visited[3] = "format_results") =>
          node \in {"END", "returned", "raised"}
    /\ (Len(visited) = 3 /\ visited[3] = "no_results") =>
          node \in {"END", "returned"}
    /\ node \in {"END", "returned"} => Len(visited) = 3

C4_Witness ==
    /\ node = "returned"
    /\ visited = <<"enhance_query", "search_games", "no_results">>

\* C5: the State keys are set in the order user_query, enhanced_query,
\* search_results, final_recommendation: a later key is present only if every
\* earlier one is; within one invocation a key once set keeps its value; and
\* the returned user_query is the query passed in.
StateKeyOrder == <<"user_query", "enhanced_query", "search_results",
                   "final_recommendation">>

C5_KeysInOrder ==
    /\ \A i \in 1..4 : Has(StateKeyOrder[i]) =>
          \A j \in 1..(i - 1) : Has(StateKeyOrder[j])
    /\ Has("user_query") => state.user_query = arg_query
    /\ result.returned => result.user_query = arg_query

C5_KeptOnceSet ==
    (node' # EntryPoint) =>
        \A i \in 1..4 : Has(StateKeyOrder[i]) =>
            /\ StateKeyOrder[i] \in DOMAIN state'
            /\ state'[StateKeyOrder[i]] = state[StateKeyOrder[i]]

C5_FieldsPopulatedInOrder == [](C5_KeysInOrder) /\ [][C5_KeptOnceSet]_vars

C5_Witness ==
    /\ node = "returned"
    /\ DOMAIN state = Range(StateKeyOrder)
    /\ state.enhanced_query # <<>>
    /\ state.search_results # <<>>

StoredIds(cs, name) == {p.id : p \in cs[name].points}

\* C6: a search_games(q, limit=L, score_threshold=T) call that returns gives
\* at most L elements, each with similarity_score >= T, in non-increasing
\* order of similarity_score.
C6_SearchBounded ==
    (last_call.op = "search_games" /\ ~last_call.raised) =>
        LET r == last_call.returned
        IN /\ Len(r) <= last_call.limit
           /\ \A i \in 1..Len(r) : r[i].similarity_score >= last_call.threshold
           /\ \A i, j \in 1..Len(r) :
                 i < j => r[i].similarity_score >= r[j].similarity_score

C6_Witness ==
    /\ last_call.op = "search_games"
    /\ ~last_call.raised
    /\ last_call.limit = 1
    /\ Len(last_call.returned) = 1
    /\ Cardinality(colls[collection_name].points) = 2
    /\ last_call.threshold = 0

\* C7 as stated: after add_games_to_collection returns for a batch of valid
\* records, count_games() has grown by the number of records whose embedding
\* did not fail.
C7_CountGrowsByEmbedded ==
    (/\ last_call.op = "add_games"
     /\ ~last_call.raised
     /\ last_call.facts.all_valid
     /\ Exists(pre, collection_name)) =>
        CountOf(colls, collection_name) =
            CountOf(pre, collection_name) + last_call.facts.n_embedded

ProcessedIds == {id \in AppIds : last_call.facts.last_processed[id] # <<>>}

\* C7 amended: after add_games_to_collection, count_games() has grown by the
\* number of distinct app_ids that were not yet in the collection among the
\* records processed without error (for valid records: whose embedding did
\* not fail); when the call raises, the collection is as it was.
C7_CountGrowsByNewIds ==
    last_call.op = "add_games" =>
        IF last_call.raised THEN colls = pre
        ELSE CountOf(colls, collection_name) =
                CountOf(pre, collection_name)
                + Cardinality(ProcessedIds \ StoredIds(pre, collection_name))

C7_Witness ==
    /\ last_call.op = "add_games"
    /\ ~last_call.raised
    /\ last_call.facts.all_valid
    /\ last_call.facts.n_embedded = 2
    /\ CountOf(pre, collection_name) = 1
    /\ CountOf(colls, collection_name) = 2

\* C8 as stated: running add_games_to_collection again with a batch of valid
\* records having the same set of app_ids leaves count_games() unchanged
\* (both calls returning normally).
C8_RerunKeepsCount ==
    [][(/\ last_call.op = "add_games"
        /\ last_call'.op = "add_games"
        /\ ~last_call.raised /\ ~last_call'.raised
        /\ last_call.facts.all_valid /\ last_call'.facts.all_valid
        /\ last_call.facts.n_records > 0
        /\ last_call'.facts.batch_ids = last_call.facts.batch_ids
        /\ Exists(pre, collection_name))
       => CountOf(colls', collection_name) = CountOf(colls, collection_name)]_vars

\* C8 amended: add_games_to_collection is an upsert keyed by app_id: a call
\* whose batch ids are all in the collection already (as after an earlier run
\* that stored every one of them) leaves count_games() unchanged; after a
\* call that returns, each id with a processed record holds exactly the point
\* built from the last such record of the batch, every other point is as it
\* was; and the collection never holds two points with the same app_id.
C8_UpsertByAppId ==
    /\ \A p, q \in colls[collection_name].points : p.id = q.id => p = q
    /\ last_call.op = "add_games" =>
          /\ last_call.facts.batch_ids \subseteq StoredIds(pre, collection_name)
                => CountOf(colls, collection_name) = CountOf(pre, collection_name)
          /\ ~last_call.raised =>
                /\ \A id \in ProcessedIds :
                      {p \in colls[collection_name].points : p.id = id} =
                         {PointStruct(last_call.facts.last_processed[id][1],
                                      embedding_dim)}
                /\ \A p \in pre[collection_name].points :
                      p.id \notin ProcessedIds
                        => p \in colls[collection_name].points
                /\ StoredIds(colls, collection_name) =
                      StoredIds(pre, collection_name) \cup ProcessedIds

C8_Witness ==
    /\ last_call.op = "add_games"
    /\ ~last_call.raised
    /\ last_call.facts.batch_ids = {<<"g1">>, <<"g2">>}
    /\ last_call.facts.batch_ids = StoredIds(pre, collection_name)
    /\ ProcessedIds = AppIds
    /\ colls # pre

\* C9: add_games_to_collection on an existing collection never raises because
\* of a failure while embedding or upserting a record, and afterwards every
\* record of the batch that was embedded and turned into a point is in the
\* collection: a failure does not abort the batch.
C9_BatchNeverAborts ==
    (last_call.op = "add_games" /\ Exists(pre, collection_name)) =>
        /\ ~last_call.raised
        /\ ProcessedIds \subseteq StoredIds(colls, collection_name)

\* C10: create_collection() leaves an existing collection as it is (points,
\* vector size and metric), changes nothing when it raises, and otherwise
\* creates the collection empty with vector size embedding_dim and cosine
\* distance.
C10_CreateIdempotent ==
    last_call.op = "create_collection" =>
        /\ Exists(pre, collection_name) => colls = pre
        /\ last_call.raised => colls = pre
        /\ (~last_call.raised /\ ~Exists(pre, collection_name)) =>
              /\ colls[collection_name] =
                    [exists |-> TRUE, size |-> ModelDim, distance |-> "Cosine",
                     points |-> {}]
              /\ \A n \in CollectionNames \ {collection_name} :
                    colls[n] = pre[n]

C10_Witness ==
    /\ last_call.op = "create_collection"
    /\ ~last_call.raised
    /\ Exists(pre, collection_name)
    /\ Cardinality(colls[collection_name].points) = 2

\* C11: when several threads call create_collection for the same name that
\* does not exist yet, however their existence checks and create requests
\* interleave, no caller ends with an already-exists error of the backend,
\* and a caller that returned leaves the collection in place.
C11_ConcurrentCreateSafe ==
    \A t \in Threads :
       /\ threads[t].error # "already exists"
       /\ threads[t].pc = "done" => Exists(colls, collection_name)

\* C12: a raw answer that opens with the label (optional quote, optional
\* bold markup, the words "Search query" in any letter case, optional colon,
\* optional blank) and may end with a double quote is cleaned to the bare
\* query; so "Search query: foo" in double quotes gives foo and
\* **Search Query:** bar gives bar.
C12_LabelStripped ==
    (cleanup.stage \in {"once", "twice"} /\ cleanup.raw \in LabelledOutputs)
        => cleanup.once \in {<<"foo">>, <<"bar">>}

\* C13: the cleanup is idempotent: cleaning a cleaned answer again gives
\* the cleaned answer, for every raw answer.
C13_CleanIdempotent ==
    cleanup.stage = "twice" => cleanup.twice = cleanup.once

LastCall == calls[Len(calls)]
LlmFailed == node = "raised" /\ calls # <<>> /\ LastCall = "llm"
StageOf(n) == IF n = "enhance_query" THEN "enhance" ELSE "synthesize"

AnyFailed == \E i \in DOMAIN got : got[i].raised
FailingStageKey ==
    [enhance_query |-> "enhanced_query", search_games |-> "search_results",
     format_results |-> "final_recommendation"]

C15_FailedNeverReturns ==
    AnyFailed =>
        /\ node = "raised"
        /\ error.raised
        /\ ~result.returned
        /\ got[Len(got)].raised
        /\ \A i \in 1..(Len(got) - 1) : ~got[i].raised
        /\ ~Has(FailingStageKey[visited[Len(visited)]])
        /\ ~Has("final_recommendation")

C15_NothingRunsAfterFailure ==
    node = "raised" =>
        /\ node' = EntryPoint
        /\ got' = <<>>
        /\ visited' = <<>>
        /\ result' = NoResult

\* C15: an invocation in which a stage fails (enhancer LLM, backend count,
\* encode or search, synthesizer LLM) returns no result: it ends raised
\* with an error at the first failure, no four-field result is built, the
\* failing stage and the stages after it add nothing to the State, and the
\* only step after the failure is a new invocation.
C15_FailureIsExplicit ==
    [](C15_FailedNeverReturns) /\ [][C15_NothingRunsAfterFailure]_vars

C15_Witness ==
    /\ node = "raised"
    /\ visited = <<"enhance_query", "search_games">>
    /\ calls = <<"llm", "count", "encode">>
    /\ Has("enhanced_query")
    /\ ~result.returned

\* C16: is_backend_available never raises and has no effect on the backend;
\* it returns a boolean, FALSE exactly when its backend request failed.
C16_ProbeNeverRaises ==
    last_call.op = "is_backend_available" =>
        /\ ~last_call.raised
        /\ last_call.returned \in BOOLEAN
        /\ last_call.returned = FALSE <=> ~last_call.backend_ok
        /\ colls = pre

C16_Witness ==
    /\ last_call.op = "is_backend_available"
    /\ ~last_call.backend_ok
    /\ last_call.returned = FALSE
    /\ ~last_call.raised

\* C17 as stated: count_games never raises; it returns the number of points
\* of the collection, and 0 when that number is unknown: the backend
\* reports no count, the collection does not exist, or the request fails.
C17_CountNeverRaises ==
    last_call.op = "count_games" =>
        /\ ~last_call.raised
        /\ last_call.returned =
              (IF last_call.reply.failed \/ last_call.reply.points_count = NoCount
                 THEN 0 ELSE CountOf(colls, collection_name))

\* C17: count_games returns the number of points the backend reports, and 0
\* when the backend reports no count; it raises exactly when the backend
\* request fails, which it does whenever the collection does not exist.
C17_ZeroOnlyForNoCount ==
    last_call.op = "count_games" =>
        /\ last_call.raised <=> last_call.reply.failed
        /\ ~Exists(colls, collection_name) => last_call.raised
        /\ ~last_call.raised =>
              last_call.returned =
                (IF last_call.reply.points_count = NoCount
                   THEN 0 ELSE CountOf(colls, collection_name))
        /\ colls = pre

C17_Witness ==
    /\ last_call.op = "count_games"
    /\ ~last_call.raised
    /\ last_call.reply.points_count = NoCount
    /\ last_call.returned = 0
    /\ CountOf(colls, collection_name) = 2

\* C18: however many GameVectorStore objects are constructed, also by
\* different threads at the same time, the embedding model is built at most
\* once, so every caller uses the one instance.
C18_ModelLoadedOnce ==
    /\ loads <= 1
    /\ embedding_model <= 1

\* C19: a collection never holds vectors of a dimension other than its own,
\* and a mismatch between the model's dimension and the collection's vector
\* size is rejected by create_collection, also when the collection exists
\* already, so add_games_to_collection never meets one.
C19_MismatchRejectedAtCreate ==
    /\ \A n \in CollectionNames : \A p \in colls[n].points :
          p.vector.dim = colls[n].size
    /\ (last_call.op = "create_collection" /\ ~last_call.raised)
          => colls[collection_name].size = embedding_dim
    /\ (last_call.op = "add_games" /\ Exists(colls, collection_name))
          => colls[collection_name].size = embedding_dim

\* the State and the result of invocation f hold its own query and what its
\* own calls answered: got is <<enhancer, count, search, synthesizer>>
OwnValues(f) ==
    /\ "user_query" \in DOMAIN f.state => f.state.user_query = f.arg_query
    /\ "enhanced_query" \in DOMAIN f.state
          => f.state.enhanced_query = CleanMsg(f.got[1].content)
    /\ "search_results" \in DOMAIN f.state
          => f.state.search_results = f.got[3].results
    /\ f.result.returned =>
          /\ f.result.user_query = f.arg_query
          /\ f.result.enhanced_query = CleanMsg(f.got[1].content)
          /\ f.result.recommendations = f.got[3].results
          /\ f.result.recommendation_text =
                (IF f.got[3].results = <<>> THEN NoResultsText
                 ELSE f.got[4].content)

\* C20: of two recommend_games invocations on one engine, run one after the
\* other or interleaved, each has a State and a result made only of its own
\* query and of the answers to its own calls.
C20_StateNotShared ==
    OwnValues(ThisFrame) /\ OwnValues(other)

C20_Witness ==
    /\ result.returned
    /\ other.node = "format_results"
    /\ other.arg_query # arg_query
    /\ other.state.enhanced_query # result.enhanced_query
    /\ result.recommendations = <<>>

\* C21: every external call of an invocation is bounded, so an invocation
\* never waits without end in a call that stalls: it ends with an error.
C21_NoInvocationHangs ==
    node # "blocked"

\* C22: the query handed to the search stage is the cleaned enhanced query,
\* unchanged, also when it is empty; the branch to format_results or
\* no_results is taken only after the search was run with it.
C22_QueryVerbatim ==
    /\ \A i \in DOMAIN got :
          "query" \in DOMAIN got[i] =>
             /\ got[i].query = CleanMsg(got[1].content)
             /\ got[i].query = state.enhanced_query
    /\ (Took("format_results") \/ Took("no_results")) =>
          /\ Len(calls) >= 4
          /\ SubSeq(calls, 1, 4) = <<"llm", "count", "encode", "search">>
          /\ got[3].query = state.enhanced_query

C22_Witness ==
    /\ node = "no_results"
    /\ state.enhanced_query = <<>>
    /\ got[1].content = <<DQ, DQ>>
    /\ got[3].query = <<>>
    /\ calls = <<"llm", "count", "encode", "search">>

SnippetOf(line) == IF line = <<>> THEN <<>> ELSE SubSeq(line, 2, Len(line) - 1)

\* C23: the prompt of the synthesizer lists the hits in the order the search
\* stage returned them, at most 5, each with its 1-based ordinal, its name,
\* the store link of its app_id, its category, the first two at most of its
\* screenshot captions in order, and at most the first 200 characters of
\* its description; the recommendations of the result are the same hits in
\* the same order.
C23_HitsRendered ==
    /\ \A i \in DOMAIN got :
          "prompt" \in DOMAIN got[i] =>
             LET txt == got[i].prompt.search_results
                 hs == state.search_results
             IN /\ Len(txt) = Len(hs)
                /\ Len(hs) <= PipelineLimit
                /\ \A k \in 1..Len(hs) :
                      /\ txt[k].ordinal = k
                      /\ txt[k].name = hs[k].app_name
                      /\ txt[k].link = <<StoreLink>> \o hs[k].app_id
                      /\ txt[k].category = hs[k].app_category
                      /\ txt[k].captions =
                            Prefix(CaptionList(hs[k].screenshot_captions),
                                   CaptionLimit)
                      /\ SnippetOf(txt[k].description) =
                            Prefix(hs[k].app_description, SnippetLimit)
    /\ result.returned => result.recommendations = got[3].results

PayloadKeys ==
    {"app_id", "app_name", "app_category", "app_description", "rating",
     "screenshot_captions", "app_icon", "app_page_link"}

\* C24: every stored point has a payload with exactly the eight fields, its
\* app_description being a prefix of at most 1000 characters of the
\* description of a record with its app_id; similarity_score is in every
\* element of a search result and in no stored payload.
C24_PayloadFields ==
    /\ \A n \in CollectionNames : \A p \in colls[n].points :
          /\ DOMAIN p.payload = PayloadKeys
          /\ Len(p.payload.app_description) <= DescLimit
          /\ \E g \in CatalogGames :
                /\ g.app_id = p.id
                /\ g.app_description # None
                /\ p.payload.app_description =
                      Prefix(g.app_description, DescLimit)
    /\ (last_call.op = "search_games" /\ ~last_call.raised) =>
          \A i \in 1..Len(last_call.returned) :
             DOMAIN last_call.returned[i] = PayloadKeys \cup {"similarity_score"}

C24_Witness ==
    /\ last_call.op = "search_games"
    /\ ~last_call.raised
    /\ last_call.returned # <<>>
    /\ last_call.returned[1].app_description = Prefix(LongDescription, DescLimit)
    /\ \E p \in colls[collection_name].points :
          /\ Len(p.payload.app_description) = DescLimit
          /\ "similarity_score" \notin DOMAIN p.payload

Present(v) == v \notin {None, <<>>}
RECURSIVE CaptionEntries(_)
CaptionEntries(l) ==
    IF l = <<>> THEN <<>>
    ELSE <<"Screenshot shows:", Head(l)>> \o CaptionEntries(Tail(l))

\* C25: the embedding text of a record is its title, category and
\* description, those that are present, in this order, then one entry
\* "Screenshot shows: <caption>" per screenshot caption in caption order;
\* an absent or empty field adds nothing.
C25_EmbeddingTextOrder ==
    embed.stage = "done" =>
        embed.text =
            (IF Present(embed.game.app_name)
               THEN <<"Title:">> \o embed.game.app_name ELSE <<>>)
            \o (IF Present(embed.game.app_category)
                  THEN <<"Category:">> \o embed.game.app_category ELSE <<>>)
            \o (IF Present(embed.game.app_description)
                  THEN <<"Description:">> \o embed.game.app_description
                  ELSE <<>>)
            \o CaptionEntries(embed.captions)

\* C26: a record whose optional fields (rating, app_icon, app_page_link,
\* app_description, screenshot_captions) are absent, as a missing key or
\* as null, is still indexed by add_games_to_collection: when the call
\* returns and every embedding was computed, every record of the batch is
\* a point of the collection.
C26_AbsentOptionalsIndexed ==
    (/\ last_call.op = "add_games"
     /\ ~last_call.raised
     /\ Exists(pre, last_call.name)
     /\ last_call.facts.n_embedded = last_call.facts.n_records) =>
        last_call.facts.batch_ids \subseteq StoredIds(colls, last_call.name)

\* C27: every GameVectorStore instance keeps operating on the collection
\* name it was constructed with: a create, write, search or count called on
\* an instance addresses that name, also after another instance was
\* constructed with a different name.
C27_InstanceKeepsItsName ==
    (last_call.op # "none" /\ inst.receiver # 0) =>
        last_call.name = inst.names[inst.receiver]

C28_InitializedHasHandles ==
    session.engine_initialized =>
        (session.recommendation_engine /\ session.vector_store)

C28_FailedInitKeepsState ==
    (session.last.op = "initialize" /\ session.last.shown = "error") =>
        Handles(session) = session.last.before

C28_NoRecommendBeforeInit ==
    (session.last.op = "find_games" /\ session.last.invoked) =>
        session.last.before.engine_initialized

\* C28: in the app's session state, engine_initialized implies that
\* recommendation_engine and vector_store are both set; an initialization
\* that fails leaves engine_initialized, games_loaded, vector_store and
\* recommendation_engine as they were; and recommend_games is never invoked
\* while engine_initialized is false.
C28_SessionStateConsistent ==
    /\ C28_InitializedHasHandles
    /\ C28_FailedInitKeepsState
    /\ C28_NoRecommendBeforeInit

\* C29: save_games_to_db on an app_id that is already in the table leaves
\* the screenshot_captions stored for it unchanged (captions change only
\* through add_data_to_game).
C29_SaveKeepsCaptions ==
    db.last.op = "save_games_to_db" =>
        \A id \in db.last.ids :
            db.pre[id].present =>
                db.rows[id].screenshot_captions = db.pre[id].screenshot_captions

\* the responses before the last were full pages with status OK
StopsAtFirstShortPage ==
    \A i \in 1..(Len(fetch.responses) - 1) :
        /\ fetch.responses[i].kind = "OK"
        /\ fetch.responses[i].n >= PageSize

\* the games fetched are the pages 1, 2, ... in order, each page in order
InPageOrder ==
    /\ \A i \in 1..Len(fetch.responses) :
          (fetch.responses[i].kind = "OK") =>
             \A j \in 1..fetch.responses[i].n :
                \E k \in 1..Len(fetch.games) : fetch.games[k] = <<i, j>>
    /\ \A k \in 1..(Len(fetch.games) - 1) :
          \/ /\ fetch.games[k + 1][1] = fetch.games[k][1]
             /\ fetch.games[k + 1][2] = fetch.games[k][2] + 1
          \/ /\ fetch.games[k + 1][1] = fetch.games[k][1] + 1
             /\ fetch.games[k + 1][2] = 1

\* C30: fetch_games(limit) terminates for every sequence of responses, and
\* returns at most limit games, which are a prefix of the games fetched in
\* page order; it stops paging at the first error, empty page or short page.
C30_FetchTerminates ==
    /\ <>(fetch.pc = "done")
    /\ [](/\ StopsAtFirstShortPage
          /\ (fetch.pc = "done") =>
                /\ Len(fetch.returned) <= fetch.limit
                /\ Len(fetch.returned) <= Len(fetch.games)
                /\ fetch.returned = SubSeq(fetch.games, 1, Len(fetch.returned))
                /\ InPageOrder)

C30_Witness ==
    /\ fetch.pc = "done"
    /\ Len(fetch.responses) >= 2
    /\ fetch.limit < Len(fetch.games)
    /\ Len(fetch.returned) = fetch.limit
====
